---- MODULE Spec2Model ----
(***************************************************************************)
(* Model of demo_all_px_templates.py: main() builds one template, walks    *)
(* PX_FUNCTIONS in order, renders a pair of figures for every eligible     *)
(* plot-kind, exports the pairs as images into an HTML string and writes   *)
(* the string to a file.  Calls into the plotting, data and array          *)
(* libraries are inputs of the model: each call either returns or raises.  *)
(***************************************************************************)
EXTENDS Integers, Sequences, FiniteSets, TLC

\* ------------------------------------------------------------------------
\* Bounds
\* ------------------------------------------------------------------------
\* Largest number of library calls in one run whose outcome is not the
\* nominal one (a call that raises, a probe that finds no marker.color).
MaxLibDeviations == 1

\* Number of distinct arrays np.random.rand(10, 10) may return.
NumRandomImages == 2

\* ------------------------------------------------------------------------
\* Python values
\* ------------------------------------------------------------------------
\* None, for the optional values reason, error and result.
None == <<>>

\* None where a dict is expected (get_plot_args) and a dict of keyword
\* arguments.
ArgsNone == [py |-> "None"]

Dict(kw) == [py |-> "dict", kw |-> kw]

\* The default of args_map.get(px_name, {}).
EmptyDict == Dict([k \in {} |-> None])

\* `not args` for a value that is not None.
IsEmptyDict(args) == args.py = "dict" /\ DOMAIN args.kw = {}

\* ------------------------------------------------------------------------
\* Configuration tables
\* ------------------------------------------------------------------------
\* PX_FUNCTIONS.items(), in insertion order.
PX_ITEMS ==
  << <<"scatter", <<"px.scatter", "go.Scatter", "scatter">> >>,
     <<"line", <<"px.line", "go.Scatter", "scatter">> >>,
     <<"area", <<"px.area", "go.Scatter", "scatter">> >>,
     <<"bar", <<"px.bar", "go.Bar", "bar">> >>,
     <<"timeline", <<"px.timeline", "timeline", "bar">> >>,
     <<"histogram", <<"px.histogram", "go.Histogram", "histogram">> >>,
     <<"ecdf", <<"px.ecdf", "go.Scatter", "scatter">> >>,
     <<"violin", <<"px.violin", "go.Violin", "violin">> >>,
     <<"box", <<"px.box", "go.Box", "box">> >>,
     <<"strip", <<"px.strip", "go.Box", "box">> >>,
     <<"scatter_3d", <<"px.scatter_3d", "go.Scatter3d", "scatter3d">> >>,
     <<"line_3d", <<"px.line_3d", "go.Scatter3d", "scatter3d">> >>,
     <<"scatter_ternary", <<"px.scatter_ternary", "go.Scatterternary", "scatterternary">> >>,
     <<"line_ternary", <<"px.line_ternary", "go.Scatterternary", "scatterternary">> >>,
     <<"scatter_polar", <<"px.scatter_polar", "go.Scatterpolar", "scatterpolar">> >>,
     <<"line_polar", <<"px.line_polar", "go.Scatterpolar", "scatterpolar">> >>,
     <<"bar_polar", <<"px.bar_polar", "go.Barpolar", "barpolar">> >>,
     <<"scatter_geo", <<"px.scatter_geo", "go.Scattergeo", "scattergeo">> >>,
     <<"line_geo", <<"px.line_geo", "go.Scattergeo", "scattergeo">> >>,
     <<"choropleth", <<"px.choropleth", "go.Choropleth", "choropleth">> >>,
     <<"scatter_map", <<"px.scatter_map", "go.Scattermap", "scattermap">> >>,
     <<"line_map", <<"px.line_map", "go.Scattermap", "scattermap">> >>,
     <<"choropleth_map", <<"px.choropleth_map", "go.Choroplethmap", "choroplethmap">> >>,
     <<"density_map", <<"px.density_map", "go.Densitymap", "densitymap">> >>,
     <<"scatter_mapbox", <<"px.scatter_mapbox", "go.Scattermapbox", "scattermapbox">> >>,
     <<"line_mapbox", <<"px.line_mapbox", "go.Scattermapbox", "scattermapbox">> >>,
     <<"choropleth_mapbox", <<"px.choropleth_mapbox", "go.Choroplethmapbox", "choroplethmapbox">> >>,
     <<"density_mapbox", <<"px.density_mapbox", "go.Densitymapbox", "densitymapbox">> >>,
     <<"scatter_matrix", <<"px.scatter_matrix", "go.Splom", "splom">> >>,
     <<"parallel_coordinates", <<"px.parallel_coordinates", "go.Parcoords", "parcoords">> >>,
     <<"parallel_categories", <<"px.parallel_categories", "go.Parcats", "parcats">> >>,
     <<"density_contour", <<"px.density_contour", "go.Histogram2dContour", "histogram2dcontour">> >>,
     <<"density_heatmap", <<"px.density_heatmap", "go.Histogram2d", "histogram2d">> >>,
     <<"pie", <<"px.pie", "go.Pie", "pie">> >>,
     <<"sunburst", <<"px.sunburst", "go.Sunburst", "sunburst">> >>,
     <<"treemap", <<"px.treemap", "go.Treemap", "treemap">> >>,
     <<"icicle", <<"px.icicle", "go.Icicle", "icicle">> >>,
     <<"funnel", <<"px.funnel", "go.Funnel", "funnel">> >>,
     <<"funnel_area", <<"px.funnel_area", "go.Funnelarea", "funnelarea">> >>,
     <<"imshow", <<"px.imshow", "go.Image", "image">> >> >>

\* The keys of PX_FUNCTIONS.
PX_NAMES == {PX_ITEMS[n][1] : n \in 1..Len(PX_ITEMS)}

\* PX_FUNCTIONS: plot-kind -> (px function, constructor, trace type).
PX_FUNCTIONS ==
  [name \in PX_NAMES |->
     LET n == CHOOSE m \in 1..Len(PX_ITEMS) : PX_ITEMS[m][1] = name
     IN  PX_ITEMS[n][2]]

\* isinstance(constructor, type): the go.* classes are types, the sentinel
\* string "timeline" is not.
IsType(constructor) == constructor # "timeline"

\* template_colors of create_comprehensive_template.
template_colors_swapped == <<"lime", "purple", "magenta">>

template_colors == <<"purple", "lime", "magenta">>

\* trace_constructors of create_comprehensive_template.
trace_constructors ==
  [scatter |-> "go.Scatter", bar |-> "go.Bar", histogram |-> "go.Histogram",
   box |-> "go.Box", violin |-> "go.Violin", scatter3d |-> "go.Scatter3d",
   scatterternary |-> "go.Scatterternary", scatterpolar |-> "go.Scatterpolar",
   barpolar |-> "go.Barpolar", scattergeo |-> "go.Scattergeo",
   scattermap |-> "go.Scattermap", funnel |-> "go.Funnel", splom |-> "go.Splom"]

\* The value create_comprehensive_template returns: the default template
\* merged with one trace list per trace type, each trace carrying only
\* marker.color.
create_comprehensive_template ==
  [layout |-> "plotly",
   data   |-> [trace_type \in DOMAIN trace_constructors |->
                 [c \in 1..Len(template_colors) |->
                    [constructor  |-> trace_constructors[trace_type],
                     marker_color |-> template_colors[c]]]]]

\* no_discrete of can_use_discrete_colors.
no_discrete_without_imshow ==
  {"density_heatmap", "density_map", "density_mapbox", "choropleth",
   "choropleth_map", "choropleth_mapbox",
   "parallel_coordinates", "parallel_categories"}

no_discrete_without_choropleth ==
  {"density_heatmap", "density_map", "density_mapbox",
   "choropleth_map", "choropleth_mapbox", "imshow",
   "parallel_coordinates", "parallel_categories"}

no_discrete ==
  {"density_heatmap", "density_map", "density_mapbox", "choropleth",
   "choropleth_map", "choropleth_mapbox", "imshow",
   "parallel_coordinates", "parallel_categories"}

\* ------------------------------------------------------------------------
\* Example arguments
\* ------------------------------------------------------------------------
\* The arrays np.random.rand(10, 10) can return.
RandomImages == 1..NumRandomImages

\* args_map of get_plot_args.  A data frame is named by the expression that
\* builds it; img is the array np.random.rand returned in this call.
args_map(img) ==
  [scatter |-> Dict([data_frame |-> "iris", x |-> "sepal_width", y |-> "sepal_length", color |-> "species"]),
   line |-> Dict([data_frame |-> "df_line", x |-> "year", y |-> "lifeExp", color |-> "country"]),
   area |-> Dict([data_frame |-> "df_line", x |-> "year", y |-> "lifeExp", color |-> "country"]),
   bar |-> Dict([data_frame |-> "tips", x |-> "day", y |-> "total_bill", color |-> "sex"]),
   timeline |-> Dict([data_frame |-> "jobs", x_start |-> "Start", x_end |-> "Finish", y |-> "Resource", color |-> "Resource"]),
   histogram |-> Dict([data_frame |-> "tips", x |-> "total_bill", color |-> "sex"]),
   ecdf |-> Dict([data_frame |-> "tips", x |-> "total_bill", color |-> "sex"]),
   violin |-> Dict([data_frame |-> "tips", x |-> "day", y |-> "total_bill", color |-> "sex"]),
   box |-> Dict([data_frame |-> "tips", x |-> "day", y |-> "total_bill", color |-> "sex"]),
   strip |-> Dict([data_frame |-> "tips", x |-> "day", y |-> "total_bill", color |-> "sex"]),
   scatter_3d |-> Dict([data_frame |-> "iris", x |-> "sepal_length", y |-> "sepal_width", z |-> "petal_length", color |-> "species"]),
   line_3d |-> Dict([data_frame |-> "iris", x |-> "sepal_length", y |-> "sepal_width", z |-> "petal_length", color |-> "species"]),
   scatter_ternary |-> Dict([data_frame |-> "election", a |-> "Joly", b |-> "Coderre", c |-> "Bergeron", color |-> "winner"]),
   line_ternary |-> Dict([data_frame |-> "election", a |-> "Joly", b |-> "Coderre", c |-> "Bergeron", color |-> "winner"]),
   scatter_polar |-> Dict([data_frame |-> "wind", r |-> "frequency", theta |-> "direction", color |-> "strength"]),
   line_polar |-> Dict([data_frame |-> "wind", r |-> "frequency", theta |-> "direction", color |-> "strength", line_close |-> TRUE]),
   bar_polar |-> Dict([data_frame |-> "wind", r |-> "frequency", theta |-> "direction", color |-> "strength"]),
   scatter_geo |-> ArgsNone,
   line_geo |-> ArgsNone,
   choropleth |-> Dict([data_frame |-> "gapminder", locations |-> "iso_alpha", color |-> "lifeExp", hover_name |-> "country"]),
   scatter_map |-> ArgsNone,
   line_map |-> ArgsNone,
   choropleth_map |-> Dict([data_frame |-> "gapminder", geojson |-> None, locations |-> "iso_alpha", color |-> "lifeExp"]),
   density_map |-> ArgsNone,
   scatter_mapbox |-> ArgsNone,
   line_mapbox |-> ArgsNone,
   choropleth_mapbox |-> Dict([data_frame |-> "gapminder", geojson |-> None, locations |-> "iso_alpha", color |-> "lifeExp"]),
   density_mapbox |-> ArgsNone,
   scatter_matrix |-> Dict([data_frame |-> "iris", dimensions |-> <<"sepal_width", "sepal_length", "petal_width">>, color |-> "species"]),
   parallel_coordinates |-> Dict([data_frame |-> "iris", dimensions |-> <<"sepal_width", "sepal_length", "petal_width">>, color |-> "species"]),
   parallel_categories |-> Dict([data_frame |-> "tips.head(20)", dimensions |-> <<"sex", "smoker", "day">>, color |-> "time"]),
   density_contour |-> Dict([data_frame |-> "tips", x |-> "total_bill", y |-> "tip", color |-> "sex"]),
   density_heatmap |-> Dict([data_frame |-> "tips", x |-> "total_bill", y |-> "tip"]),
   pie |-> Dict([data_frame |-> "tips", names |-> "day", values |-> "total_bill"]),
   sunburst |-> Dict([data_frame |-> "tips", path |-> <<"px.Constant(all)", "sex", "day", "time">>, values |-> "total_bill", color |-> "day"]),
   treemap |-> Dict([data_frame |-> "tips", path |-> <<"px.Constant(all)", "sex", "day", "time">>, values |-> "total_bill", color |-> "day"]),
   icicle |-> Dict([data_frame |-> "tips", path |-> <<"px.Constant(all)", "sex", "day", "time">>, values |-> "total_bill", color |-> "day"]),
   funnel |-> Dict([data_frame |-> "offices", x |-> "number", y |-> "stage", color |-> "office"]),
   funnel_area |-> Dict([names |-> <<"The 1st", "The 2nd", "The 3rd", "The 4th", "The 5th">>, values |-> <<5, 4, 3, 2, 1>>]),
   imshow |-> Dict([img |-> img])]

\* get_plot_args once the data sets are loaded: args_map.get(px_name, {}).
get_plot_args_no_bar(px_name, px_fn, img) ==
  LET table == args_map(img) IN
  IF px_name \in DOMAIN table \ {"bar"} THEN table[px_name] ELSE EmptyDict

get_plot_args(px_name, px_fn, img) ==
  LET table == args_map(img) IN
  IF px_name \in DOMAIN table THEN table[px_name] ELSE EmptyDict

\* ------------------------------------------------------------------------
\* Library calls
\* ------------------------------------------------------------------------
\* What the calls of one loop iteration of main do: the trial constructor
\* call of the probe, the loading of the example data sets, the array
\* np.random.rand returns, and the two calls of the px function.
ProbeOutcomes == {"marker.color", "no marker.color", "raises"}

CallOutcomes == {"ok", "raises"}

IterationOutcomes ==
  [probe : ProbeOutcomes, data : CallOutcomes, img : RandomImages,
   fig_no : CallOutcomes, fig_with : CallOutcomes]

\* What the two write_image calls of one section do.
ExportOutcomes == [img_no : CallOutcomes, img_with : CallOutcomes]

\* Number of calls of a record of outcomes that deviate from the nominal
\* outcome.
Deviations(lib) ==
  Cardinality({f \in DOMAIN lib \ {"img"} :
                 lib[f] \in {"raises", "no marker.color"}})

\* str(e) of an exception raised by the named call.
ExceptionText(call) == <<"exception raised by", call>>

\* A line printed to the console: its fixed text, the plot-kind it names (or
\* None) and the other values formatted into it.
Line(text, px_name, detail) ==
  [text |-> text, px_name |-> px_name, detail |-> detail]

\* Number of color groups the column `color` of a data frame has.
NumColorGroups(kw) ==
  IF ~ ({"data_frame", "color"} \subseteq DOMAIN kw) THEN 1
  ELSE LET col == <<kw.data_frame, kw.color>> IN
       CASE col = <<"tips", "sex">> -> 2
         [] col = <<"tips", "day">> -> 4
         [] col = <<"tips.head(20)", "time">> -> 2
         [] col = <<"iris", "species">> -> 3
         [] col = <<"df_line", "country">> -> 3
         [] col = <<"jobs", "Resource">> -> 2
         [] col = <<"election", "winner">> -> 3
         [] col = <<"wind", "strength">> -> 8
         [] col = <<"offices", "office">> -> 2
         [] OTHER -> 1

\* The library's default color sequence.
DefaultColors == <<"blue", "red", "teal">>

\* The colors the plotting library gives the color groups of a figure: the
\* marker colors of the template's traces of the figure's trace type, taken
\* in order and cycled; the default sequence when no template is passed or
\* the template has no traces of that type.
GroupColors(trace_type, kw) ==
  LET n == NumColorGroups(kw)
      cycle == IF "template" \in DOMAIN kw
                  /\ trace_type \in DOMAIN kw.template.data
                 THEN [c \in DOMAIN kw.template.data[trace_type] |->
                         kw.template.data[trace_type][c].marker_color]
                 ELSE DefaultColors
  IN  [g \in 1..n |-> cycle[((g - 1) % Len(cycle)) + 1]]

\* px_fn(**kw): the figure a px function returns.
px_call(px_name, kw) ==
  [fn        |-> px_name,
   args      |-> [k \in DOMAIN kw \ {"template"} |-> kw[k]],
   templated |-> "template" \in DOMAIN kw,
   colors    |-> GroupColors(PX_FUNCTIONS[px_name][3], kw)]

\* The bytes fig.write_image(buffer, format='png', ...) leaves in the buffer.
write_image(fig) == <<"PNG", fig.fn, fig.templated>>

\* base64.b64encode(bytes).decode('utf-8').
b64encode(bytes) == IF bytes = <<>> THEN <<>> ELSE <<"base64">> \o bytes

\* ------------------------------------------------------------------------
\* Helper functions
\* ------------------------------------------------------------------------
\* test_trace_supports_marker_color; probe is what the trial constructor
\* call does.
test_trace_supports_marker_color(constructor, probe) ==
  IF constructor = "timeline" THEN probe = "marker.color"
  ELSE IF IsType(constructor) THEN probe = "marker.color"
  ELSE FALSE

\* constructor_map of get_constructor_name.
constructor_map ==
  [scatter |-> "Scatter", bar |-> "Bar", histogram |-> "Histogram",
   box |-> "Box", violin |-> "Violin", scatter3d |-> "Scatter3d",
   scatterternary |-> "Scatterternary", scatterpolar |-> "Scatterpolar",
   barpolar |-> "Barpolar", scattergeo |-> "Scattergeo",
   scattermap |-> "Scattermap", funnel |-> "Funnel", splom |-> "Splom"]

\* str.capitalize on the trace types of PX_FUNCTIONS.
Capitalize ==
  [scatter |-> "Scatter", bar |-> "Bar", histogram |-> "Histogram",
   box |-> "Box", violin |-> "Violin", scatter3d |-> "Scatter3d",
   scatterternary |-> "Scatterternary", scatterpolar |-> "Scatterpolar",
   barpolar |-> "Barpolar", scattergeo |-> "Scattergeo",
   scattermap |-> "Scattermap", funnel |-> "Funnel", splom |-> "Splom",
   choropleth |-> "Choropleth", choroplethmap |-> "Choroplethmap",
   densitymap |-> "Densitymap", scattermapbox |-> "Scattermapbox",
   choroplethmapbox |-> "Choroplethmapbox", densitymapbox |-> "Densitymapbox",
   parcoords |-> "Parcoords", parcats |-> "Parcats",
   histogram2dcontour |-> "Histogram2dcontour", histogram2d |-> "Histogram2d",
   pie |-> "Pie", sunburst |-> "Sunburst", treemap |-> "Treemap",
   icicle |-> "Icicle", funnelarea |-> "Funnelarea", image |-> "Image"]

\* get_constructor_name.
get_constructor_name(trace_type) ==
  IF trace_type \in DOMAIN constructor_map
    THEN constructor_map[trace_type]
    ELSE Capitalize[trace_type]

\* generate_template_code_display: the assignment target and one line per
\* color.
generate_template_code_display(trace_type) ==
  LET colors == <<"purple", "lime", "magenta">>
      constructor_name == get_constructor_name(trace_type)
  IN  [target |-> <<"template.data", trace_type>>,
       lines  |-> [c \in 1..Len(colors) |->
                     [constructor |-> <<"go", constructor_name>>,
                      marker_color |-> colors[c]]]]

\* ------------------------------------------------------------------------
\* Validation and plot generation
\* ------------------------------------------------------------------------
\* can_use_discrete_colors: the pair (can_use, reason).
can_use_discrete_colors(px_name, px_fn, constructor, trace_type, probe) ==
  IF px_name \in no_discrete
    THEN <<FALSE, <<"Does not support discrete colors">> >>
  ELSE IF ~ test_trace_supports_marker_color(constructor, probe)
    THEN <<FALSE, <<"Trace type does not have marker.color attribute">> >>
  ELSE <<TRUE, None>>

\* args_with_template = args.copy(); args_with_template["template"] = template.
with_template(kw, template) ==
  [k \in DOMAIN kw \cup {"template"} |->
     IF k = "template" THEN template ELSE kw[k]]

\* create_plot_comparison.  raised names the call whose exception left the
\* function (the data sets are loaded outside the try block) and is None
\* when the function returned; result and error are then the pair returned,
\* and args is the dict get_plot_args returned, as the call leaves it.
create_plot_comparison_no_try(px_name, px_fn, constructor, trace_type, template, lib) ==
  LET a == get_plot_args(px_name, px_fn, lib.img) IN
  IF lib.data = "raises"
    THEN [raised |-> <<"get_plot_args", px_name>>, result |-> None,
          error |-> None, args |-> ArgsNone]
  ELSE IF a.py = "None"
    THEN [raised |-> None, result |-> None,
          error |-> <<"No test data configured for", px_name>>, args |-> a]
  ELSE IF IsEmptyDict(a)
    THEN [raised |-> None, result |-> None,
          error |-> <<"Missing required arguments for", px_name>>, args |-> a]
  ELSE IF lib.fig_no = "raises" \/ lib.fig_with = "raises"
    THEN [raised |-> <<px_fn, px_name>>, result |-> None,
          error |-> None, args |-> a]
  ELSE [raised |-> None,
        result |-> <<px_call(px_name, a.kw),
                     px_call(px_name, with_template(a.kw, template))>>,
        error |-> None, args |-> a]

create_plot_comparison(px_name, px_fn, constructor, trace_type, template, lib) ==
  LET a == get_plot_args(px_name, px_fn, lib.img) IN
  IF lib.data = "raises"
    THEN [raised |-> <<"get_plot_args", px_name>>, result |-> None,
          error |-> None, args |-> ArgsNone]
  ELSE IF a.py = "None"
    THEN [raised |-> None, result |-> None,
          error |-> <<"No test data configured for", px_name>>, args |-> a]
  ELSE IF IsEmptyDict(a)
    THEN [raised |-> None, result |-> None,
          error |-> <<"Missing required arguments for", px_name>>, args |-> a]
  ELSE IF lib.fig_no = "raises"
    THEN [raised |-> None, result |-> None,
          error |-> ExceptionText(px_fn), args |-> a]
  ELSE IF lib.fig_with = "raises"
    THEN [raised |-> None, result |-> None,
          error |-> ExceptionText(px_fn), args |-> a]
  ELSE [raised |-> None,
        result |-> <<px_call(px_name, a.kw),
                     px_call(px_name, with_template(a.kw, template))>>,
        error |-> None, args |-> a]

\* ------------------------------------------------------------------------
\* State
\* ------------------------------------------------------------------------
VARIABLES
  pc,                   \* where main is: "start", "loop", "html", "write",
                        \* "done", or "aborted" when an exception left main
  raised,               \* the call whose exception left main, or None
  template,             \* main's template
  i,                    \* position of the loop of main in PX_FUNCTIONS.items()
  reason,               \* main's reason
  error,                \* main's error
  args,                 \* the dict the last get_plot_args call returned
  works_with_template,  \* main's works_with_template
  j,                    \* position of the loop of generate_html_content
  html_content,         \* html_content of generate_html_content, in parts
  file,                 \* all_px_template_demo.html
  log,                  \* the lines printed to the console
  deviations,           \* library calls so far with an off-nominal outcome
  status                \* what became of each plot-kind (history)

vars ==
  <<pc, raised, template, i, reason, error, args, works_with_template, j,
    html_content, file, log, deviations, status>>

\* The section parts of an HTML string.
Sections(html) == SelectSeq(html, LAMBDA part : part.part = "section")

Init ==
  /\ pc = "start"
  /\ raised = None
  /\ template = None
  /\ i = 1
  /\ reason = None
  /\ error = None
  /\ args = ArgsNone
  /\ works_with_template = <<>>
  /\ j = 1
  /\ html_content = <<>>
  /\ file = [exists |-> FALSE, content |-> <<>>]
  /\ log = <<>>
  /\ deviations = 0
  /\ status = [name \in PX_NAMES |-> "pending"]

\* ------------------------------------------------------------------------
\* main, up to the loop
\* ------------------------------------------------------------------------
BuildTemplate ==
  /\ pc = "start"
  /\ \E outcome \in CallOutcomes :
       /\ deviations + Deviations([call |-> outcome]) <= MaxLibDeviations
       /\ deviations' = deviations + Deviations([call |-> outcome])
       /\ IF outcome = "raises"
            THEN /\ pc' = "aborted"
                 /\ raised' = <<"create_comprehensive_template">>
                 /\ log' = Append(log, Line("Comprehensive Plotly Express Template Color Demonstration", None, None))
                 /\ UNCHANGED template
            ELSE /\ pc' = "loop"
                 /\ template' = create_comprehensive_template
                 /\ log' = log \o
                      << Line("Comprehensive Plotly Express Template Color Demonstration", None, None),
                         Line("Analyzing all Plotly Express functions...", None, None) >>
                 /\ UNCHANGED raised
  /\ works_with_template' = <<>>
  /\ UNCHANGED <<i, reason, error, args, j, html_content, file, status>>

\* ------------------------------------------------------------------------
\* main, one iteration of the loop over PX_FUNCTIONS.items()
\* ------------------------------------------------------------------------
\* The calls of an iteration that are made, given the outcomes of the
\* earlier ones.
CallsMade(px_name, lib) ==
  LET constructor == PX_FUNCTIONS[px_name][2]
      probed == px_name \notin no_discrete
      can_use == can_use_discrete_colors(px_name, PX_FUNCTIONS[px_name][1],
                   constructor, PX_FUNCTIONS[px_name][3], lib.probe)[1]
      loaded == can_use /\ lib.data = "ok"
      a == get_plot_args(px_name, PX_FUNCTIONS[px_name][1], lib.img)
      drawn == loaded /\ a.py = "dict" /\ ~ IsEmptyDict(a)
  IN  (IF probed THEN {"probe"} ELSE {})
        \cup (IF can_use THEN {"data"} ELSE {})
        \cup (IF loaded THEN {"img"} ELSE {})
        \cup (IF drawn THEN {"fig_no"} ELSE {})
        \cup (IF drawn /\ lib.fig_no = "ok" THEN {"fig_with"} ELSE {})

\* The outcome a call that is not made is given.
NominalOutcomes ==
  [probe |-> "marker.color", data |-> "ok", img |-> 1,
   fig_no |-> "ok", fig_with |-> "ok"]

NextIndexStuck(n) == n

NextIndexSkipping(n) == n + 2

NextIndex(n) == n + 1

\* The loop has an iteration to run, and the library calls can do what lib
\* says: the calls that are not made are given their nominal outcome.
CanIterate(lib) ==
  /\ pc = "loop"
  /\ i <= Len(PX_ITEMS)
  /\ deviations + Deviations(lib) <= MaxLibDeviations
  /\ \A f \in DOMAIN lib \ CallsMade(PX_ITEMS[i][1], lib) :
       lib[f] = NominalOutcomes[f]

\* One iteration in which the library calls do what lib says.  Past its
\* guard the step only assigns: it can be taken whenever CanIterate holds.
Iteration(lib) ==
  /\ CanIterate(lib)
  /\   LET px_name == PX_ITEMS[i][1]
           px_fn == PX_ITEMS[i][2][1]
           constructor == PX_ITEMS[i][2][2]
           trace_type == PX_ITEMS[i][2][3]
           check == can_use_discrete_colors(px_name, px_fn, constructor,
                                            trace_type, lib.probe)
           can_use == check[1]
           cmp == create_plot_comparison(px_name, px_fn, constructor,
                                         trace_type, template, lib)
       IN
       /\ deviations' = deviations + Deviations(lib)
       /\ reason' = check[2]
       /\ IF ~ can_use
            THEN /\ i' = NextIndex(i)
                 /\ status' = [status EXCEPT ![px_name] =
                      IF px_name \in no_discrete THEN "excluded"
                                                 ELSE "no marker.color"]
                 /\ UNCHANGED <<pc, raised, error, args,
                                works_with_template, log>>
          ELSE IF cmp.raised # None
            THEN /\ pc' = "aborted"
                 /\ raised' = cmp.raised
                 /\ UNCHANGED <<i, error, args, works_with_template, log,
                                status>>
          ELSE /\ i' = NextIndex(i)
               /\ error' = cmp.error
               /\ args' = cmp.args
               /\ IF cmp.result # None
                    THEN /\ works_with_template' =
                              Append(works_with_template,
                                     <<px_name, cmp.result, trace_type>>)
                         /\ log' = Append(log, Line("Works (uses template.data", <<px_name>>, <<trace_type>>))
                         /\ status' = [status EXCEPT ![px_name] = "rendered"]
                    ELSE /\ status' = [status EXCEPT ![px_name] =
                              IF cmp.args.py = "None" THEN "no data"
                              ELSE IF IsEmptyDict(cmp.args) THEN "missing arguments"
                              ELSE "figure failed"]
                         /\ UNCHANGED <<works_with_template, log>>
               /\ UNCHANGED <<pc, raised>>
  /\ UNCHANGED <<template, j, html_content, file>>

ProcessKind == \E lib \in IterationOutcomes : Iteration(lib)

\* ------------------------------------------------------------------------
\* generate_html_content
\* ------------------------------------------------------------------------
\* main after the loop, and generate_html_content up to its loop.
BeginHtml ==
  /\ pc = "loop"
  /\ i > Len(PX_ITEMS)
  /\ pc' = "html"
  /\ j' = 1
  /\ html_content' = << [part |-> "head"] >>
  /\ log' = Append(log, Line("Creating HTML file...", None, None))
  /\ UNCHANGED <<raised, template, i, reason, error, args,
                 works_with_template, file, deviations, status>>

\* The parts one iteration of the loop adds to html_content: a section when
\* both images were exported, nothing when either export raised.
SectionParts_after_first_image(entry, lib) ==
  IF lib.img_no = "ok"
    THEN << [part |-> "section", px_name |-> entry[1],
             img_base64_no |-> b64encode(write_image(entry[2][1])),
             img_base64_with |-> IF lib.img_with = "ok"
                                   THEN b64encode(write_image(entry[2][2]))
                                   ELSE <<>>,
             template_code |-> generate_template_code_display(entry[3])] >>
    ELSE <<>>

SectionParts_twice(entry, lib) ==
  IF lib.img_no = "ok" /\ lib.img_with = "ok"
    THEN LET section ==
               [part |-> "section", px_name |-> entry[1],
                img_base64_no |-> b64encode(write_image(entry[2][1])),
                img_base64_with |-> b64encode(write_image(entry[2][2])),
                template_code |-> generate_template_code_display(entry[3])]
         IN  <<section, section>>
    ELSE <<>>

SectionParts(entry, lib) ==
  IF lib.img_no = "ok" /\ lib.img_with = "ok"
    THEN << [part |-> "section", px_name |-> entry[1],
             img_base64_no |-> b64encode(write_image(entry[2][1])),
             img_base64_with |-> b64encode(write_image(entry[2][2])),
             template_code |-> generate_template_code_display(entry[3])] >>
    ELSE <<>>

\* The lines one iteration of the loop prints.
SectionLog(entry, lib) ==
  IF lib.img_no = "ok" /\ lib.img_with = "ok"
    THEN << Line("Generated embedded images for", <<entry[1]>>, None) >>
    ELSE << Line("Warning: Could not generate images for", <<entry[1]>>,
                 ExceptionText("write_image")) >>

\* One iteration in which the two exports do what lib says.
Export(lib) ==
  /\ pc = "html"
  /\ j <= Len(works_with_template)
  /\   LET entry == works_with_template[j] IN
       /\ lib.img_no = "raises" => lib.img_with = "ok"
       /\ deviations + Deviations(lib) <= MaxLibDeviations
       /\ deviations' = deviations + Deviations(lib)
       /\ html_content' = html_content \o SectionParts(entry, lib)
       /\ log' = log \o SectionLog(entry, lib)
       /\ status' = [status EXCEPT ![entry[1]] =
            IF Deviations(lib) = 0 THEN "section" ELSE "export failed"]
  /\ j' = j + 1
  /\ UNCHANGED <<pc, raised, template, i, reason, error, args,
                 works_with_template, file>>

ExportKind == \E lib \in ExportOutcomes : Export(lib)

\* The end of generate_html_content.
EndHtml ==
  /\ pc = "html"
  /\ j > Len(works_with_template)
  /\ html_content' = Append(html_content, [part |-> "tail"])
  /\ pc' = "write"
  /\ UNCHANGED <<raised, template, i, reason, error, args,
                 works_with_template, j, file, log, deviations, status>>

\* ------------------------------------------------------------------------
\* main, the file write and the closing prints
\* ------------------------------------------------------------------------
\* What opening the file for writing and writing it do.  A write that
\* raises leaves a file holding part of the string: none of it, or all but
\* its last part.
WriteOutcomes == {"ok", "open raises", "write raises"}

WriteFile ==
  /\ pc = "write"
  /\ \E outcome \in WriteOutcomes :
       LET cost == IF outcome = "ok" THEN 0 ELSE 1 IN
       /\ deviations + cost <= MaxLibDeviations
       /\ deviations' = deviations + cost
       /\ CASE outcome = "ok" ->
                 /\ file' = [exists |-> TRUE, content |-> html_content]
                 /\ pc' = "done"
                 /\ log' = log \o
                      << Line("Created all_px_template_demo.html", None, None),
                         Line("Generated working comparisons", None, <<Len(works_with_template)>>),
                         Line("Complete!", None, None) >>
                 /\ UNCHANGED raised
            [] outcome = "open raises" ->
                 /\ pc' = "aborted"
                 /\ raised' = <<"open">>
                 /\ UNCHANGED <<file, log>>
            [] outcome = "write raises" ->
                 /\ \E n \in {0, Len(html_content) - 1} :
                      file' = [exists |-> TRUE,
                               content |-> SubSeq(html_content, 1, n)]
                 /\ pc' = "aborted"
                 /\ raised' = <<"write">>
                 /\ UNCHANGED log
  /\ UNCHANGED <<template, i, reason, error, args, works_with_template, j,
                 html_content, status>>

Next ==
  \/ BuildTemplate
  \/ ProcessKind
  \/ BeginHtml
  \/ ExportKind
  \/ EndHtml
  \/ WriteFile

Spec == Init /\ [][Next]_vars

\* ------------------------------------------------------------------------
\* Properties
\* ------------------------------------------------------------------------
\* The plot-kinds of the entries of a list of rendered comparisons, and of
\* the sections of an HTML string.
WorkNames(works) == {works[k][1] : k \in 1..Len(works)}

SectionNames(html) == {Sections(html)[k].px_name : k \in 1..Len(Sections(html))}

\* The plot-kinds a figure call was made for.
FigureCalled(name) ==
  status[name] \in {"figure failed", "rendered", "export failed", "section"}

\* The static discrete-color exclusion set, as documented.
ExcludedKinds ==
  {"density_heatmap", "density_map", "density_mapbox", "choropleth",
   "choropleth_map", "choropleth_mapbox", "imshow", "parallel_coordinates",
   "parallel_categories"}

\* C1: for every plot-kind of the static exclusion set no figure is ever
\* constructed, none is kept in works_with_template, and no section appears
\* in the HTML string or in the file, whatever the library calls do.
Thm_C1 ==
  \A name \in ExcludedKinds :
    /\ ~ FigureCalled(name)
    /\ status[name] \in {"pending", "excluded"}
    /\ name \notin WorkNames(works_with_template)
    /\ \A k \in 1..Len(html_content) :
         html_content[k].part = "section" => html_content[k].px_name # name
    /\ \A k \in 1..Len(file.content) :
         file.content[k].part = "section" => file.content[k].px_name # name

\* A finished run that passed every excluded plot-kind and wrote sections.
Wit_C1 ==
  /\ pc = "done"
  /\ \A name \in ExcludedKinds : status[name] = "excluded"
  /\ Len(Sections(file.content)) > 0

\* A line of the console names the plot-kind and carries the given values.
Logged(name, detail) ==
  \E k \in 1..Len(log) : log[k].px_name = <<name>> /\ log[k].detail = detail

\* C2 (as stated): a plot-kind whose example arguments are None and that
\* reached create_plot_comparison has no section, and its skip reason is
\* recorded by the run: printed, or still held by main.
Claim_C2 ==
  \A name \in PX_NAMES :
    status[name] = "no data" =>
      /\ name \notin SectionNames(html_content)
      /\ name \notin SectionNames(file.content)
      /\ \/ Logged(name, <<"No test data configured for", name>>)
         \/ error = <<"No test data configured for", name>>
         \/ reason = <<"No test data configured for", name>>

\* A value is the text of an exception.
IsExceptionText(detail) == Len(detail) = 2 /\ detail[1] = "exception raised by"

\* C3 (as stated): when constructing a figure of a plot-kind or exporting
\* one of its images raised, a console line naming the plot-kind carries the
\* exception text, and the plot-kind has no section.
Claim_C3 ==
  \A name \in PX_NAMES :
    status[name] \in {"figure failed", "export failed"} =>
      /\ \E k \in 1..Len(log) :
           log[k].px_name = <<name>> /\ IsExceptionText(log[k].detail)
      /\ name \notin SectionNames(html_content)
      /\ name \notin SectionNames(file.content)

CompleteSection(section, works) ==
  \E k \in 1..Len(works) :
    /\ works[k][1] = section.px_name
    /\ section.img_base64_no = b64encode(write_image(works[k][2][1]))
    /\ section.img_base64_with = b64encode(write_image(works[k][2][2]))
    /\ section.img_base64_no # <<>>
    /\ section.img_base64_with # <<>>
    /\ section.img_base64_no # section.img_base64_with

\* C5: every section of the HTML string and of the file holds both images,
\* each non-empty and each the export of its own figure; a plot-kind one of
\* whose exports raised has no section.
Thm_C5 ==
  /\ \A k \in 1..Len(Sections(html_content)) :
       CompleteSection(Sections(html_content)[k], works_with_template)
  /\ \A k \in 1..Len(Sections(file.content)) :
       CompleteSection(Sections(file.content)[k], works_with_template)
  /\ \A name \in PX_NAMES :
       status[name] = "export failed" =>
         name \notin SectionNames(html_content) \cup SectionNames(file.content)

\* An export raised for one plot-kind and a later one got its section.
Wit_C5 ==
  /\ \E name \in PX_NAMES : status[name] = "export failed"
  /\ \E k \in 1..Len(log) :
       /\ log[k].text = "Warning: Could not generate images for"
       /\ k < Len(log)
       /\ log[k + 1].text = "Generated embedded images for"

\* The plot-kinds in the order of PX_FUNCTIONS.items().
Order == [n \in 1..Len(PX_ITEMS) |-> PX_ITEMS[n][1]]

\* The plot-kinds of the sections of an HTML string, in order.
SectionSeq(html) == [k \in 1..Len(Sections(html)) |-> Sections(html)[k].px_name]

\* The steps main has left at most: it falls with every step and is zero
\* only when main has returned or raised.
StepsLeft ==
  CASE pc = "start" -> 2 * Len(PX_ITEMS) + 5
    [] pc = "loop"  -> (Len(PX_ITEMS) + 1 - i) + Len(PX_ITEMS) + 4
    [] pc = "html"  -> (Len(works_with_template) + 1 - j) + 2
    [] pc = "write" -> 1
    [] OTHER        -> 0

\* C6: a failure of a figure call or of an export never stops the run.  The
\* loop visits the plot-kinds one at a time and in order; once it is over,
\* every plot-kind was processed; a finished run wrote a file whose sections
\* are those of the plot-kinds that were eligible and did not fail, in
\* order; and the run goes on to its end: a run that has not returned or
\* raised can always take its next step (with every call returning), every
\* step leaves fewer steps, and an
\* exception leaves main only from the template, get_plot_args or the file
\* write.
Thm_C6 ==
  /\ [][i' \in {i, i + 1}]_vars
  /\ [][StepsLeft' < StepsLeft /\ StepsLeft' >= 0]_vars
  /\ [](CASE pc = "start" -> ENABLED BuildTemplate
          [] pc = "loop" /\ i <= Len(PX_ITEMS) -> CanIterate(NominalOutcomes)
          [] pc = "loop" /\ i > Len(PX_ITEMS) -> ENABLED BeginHtml
          [] pc = "html" /\ j <= Len(works_with_template) ->
               ENABLED Export([img_no |-> "ok", img_with |-> "ok"])
          [] pc = "html" /\ j > Len(works_with_template) -> ENABLED EndHtml
          [] pc = "write" -> ENABLED WriteFile
          [] OTHER -> pc \in {"done", "aborted"})
  /\ [](\A n \in 1..Len(PX_ITEMS) :
          (status[Order[n]] = "pending") <=> (n >= i))
  /\ [](pc \in {"html", "write", "done"} =>
          \A name \in PX_NAMES : status[name] # "pending")
  /\ [](pc = "done" =>
          /\ file.exists
          /\ file.content = html_content
          /\ SectionSeq(file.content) =
               SelectSeq(Order, LAMBDA name : status[name] = "section")
          /\ \A name \in PX_NAMES :
               status[name] \in {"excluded", "no marker.color", "no data",
                                 "figure failed", "export failed", "section"})
  /\ [](pc = "aborted" =>
          raised[1] \in {"create_comprehensive_template", "get_plot_args",
                         "open", "write"})

\* A finished run in which an export raised and the file has sections.
Wit_C6 ==
  /\ pc = "done"
  /\ \E name \in PX_NAMES : status[name] = "export failed"
  /\ Len(Sections(file.content)) > 1

\* C7: works_with_template, the sections of the HTML string and the
\* sections of the file are never more than the entries of PX_FUNCTIONS.
Thm_C7 ==
  /\ Len(works_with_template) <= Len(PX_ITEMS)
  /\ Len(Sections(html_content)) <= Len(PX_ITEMS)
  /\ Len(Sections(file.content)) <= Len(PX_ITEMS)
  /\ Len(Sections(html_content)) <= Len(works_with_template)

\* A finished run in which every eligible plot-kind with example arguments
\* got its section.
Wit_C7 ==
  /\ pc = "done"
  /\ deviations = 0
  /\ Len(Sections(file.content)) = Len(works_with_template)
  /\ Len(works_with_template) > 0

\* C8: the figures kept by a run, and the sections made of them, are those
\* any other array returned by np.random.rand would have given: the data of
\* every kept figure is a function of its plot-kind and of the template.
Thm_C8 ==
  \A k \in 1..Len(works_with_template) :
    LET name == works_with_template[k][1]
        figs == works_with_template[k][2]
    IN  /\ \A img \in RandomImages :
             LET a == get_plot_args(name, PX_FUNCTIONS[name][1], img)
             IN  /\ a.py = "dict"
                 /\ figs[1].args = a.kw
                 /\ figs[2].args = a.kw
        /\ "img" \notin DOMAIN figs[1].args \cup DOMAIN figs[2].args
        /\ figs[1].fn = name
        /\ figs[2].fn = name
        /\ works_with_template[k][3] = PX_FUNCTIONS[name][3]

\* The loop is over, it passed imshow, and figures were kept.
Wit_C8 ==
  /\ pc = "loop"
  /\ i > Len(PX_ITEMS)
  /\ status["imshow"] = "excluded"
  /\ Len(works_with_template) > 1

\* C9: every key of args_map is a key of PX_FUNCTIONS and every plot-kind
\* has an entry, so the fallback for a missing entry is never taken; the
\* dict get_plot_args returned is left as the table holds it.
Thm_C9 ==
  /\ \A img \in RandomImages : DOMAIN args_map(img) \subseteq DOMAIN PX_FUNCTIONS
  /\ \A name \in PX_NAMES : status[name] # "missing arguments"
  /\ error # None => error[1] # "Missing required arguments for"
  /\ ~ IsEmptyDict(args)
  /\ args.py = "dict" =>
       /\ "template" \notin DOMAIN args.kw
       /\ \E img \in RandomImages :
            LET table == args_map(img) IN
            \E name \in DOMAIN table : args = table[name]

\* The loop is over and create_plot_comparison returned for every plot-kind
\* outside the exclusion set.
Wit_C9 ==
  /\ pc = "loop"
  /\ i > Len(PX_ITEMS)
  /\ \A name \in PX_NAMES \ ExcludedKinds :
       status[name] \in {"rendered", "no data"}

\* C10: the bar plot-kind is rendered from the tips data set colored by sex
\* as two figures, one without and one with the template, and the color
\* groups of the templated one are colored purple, lime, magenta in that
\* order, cycling.
Thm_C10 ==
  \A k \in 1..Len(works_with_template) :
    works_with_template[k][1] = "bar" =>
      LET figs == works_with_template[k][2] IN
      /\ Len(figs) = 2
      /\ figs[1].args = [data_frame |-> "tips", x |-> "day",
                         y |-> "total_bill", color |-> "sex"]
      /\ figs[2].args = figs[1].args
      /\ ~ figs[1].templated
      /\ figs[2].templated
      /\ Len(figs[2].colors) = Len(figs[1].colors)
      /\ \A g \in 1..Len(figs[2].colors) :
           figs[2].colors[g] = <<"purple", "lime", "magenta">>[((g - 1) % 3) + 1]
      /\ \A g \in 1..Len(figs[1].colors) :
           figs[1].colors[g] \notin {"purple", "lime", "magenta"}

\* The bar plot-kind was rendered and its templated figure has two color
\* groups.
Wit_C10 ==
  \E k \in 1..Len(works_with_template) :
    /\ works_with_template[k][1] = "bar"
    /\ Len(works_with_template[k][2][2].colors) = 2

\* The trace types create_comprehensive_template attached colors to, as the
\* function lists them.
TemplateTraceTypes ==
  {"scatter", "bar", "histogram", "box", "violin", "scatter3d",
   "scatterternary", "scatterpolar", "barpolar", "scattergeo", "scattermap",
   "funnel", "splom"}

\* C11 (as stated): the caption of every section names a trace type the
\* template has traces for, and lists the template's colors in the
\* template's order.
Claim_C11 ==
  \A k \in 1..Len(html_content) :
    html_content[k].part = "section" =>
      LET code == html_content[k].template_code IN
      /\ code.target[1] = "template.data"
      /\ code.target[2] \in TemplateTraceTypes
      /\ code.target[2] \in DOMAIN create_comprehensive_template.data
      /\ Len(code.lines) = Len(create_comprehensive_template.data[code.target[2]])
      /\ \A c \in 1..Len(code.lines) :
           code.lines[c].marker_color =
             create_comprehensive_template.data[code.target[2]][c].marker_color

\* The position of each plot-kind in PX_FUNCTIONS.items().
PX_INDEX ==
  [name \in PX_NAMES |-> CHOOSE n \in 1..Len(PX_ITEMS) : PX_ITEMS[n][1] = name]

\* A sequence of plot-kinds follows the order of PX_FUNCTIONS.items() with
\* no plot-kind twice.
InMappingOrder(names) ==
  \A k \in 1..(Len(names) - 1) : PX_INDEX[names[k]] < PX_INDEX[names[k + 1]]

\* C12: the plot-kinds of works_with_template, of the sections of the HTML
\* string and of the sections of the file each follow the order of
\* PX_FUNCTIONS.items(), none appearing twice, and the sections follow the
\* entries of works_with_template they were made of.
Thm_C12 ==
  /\ InMappingOrder([k \in 1..Len(works_with_template) |->
                       works_with_template[k][1]])
  /\ InMappingOrder(SectionSeq(html_content))
  /\ InMappingOrder(SectionSeq(file.content))
  /\ \A k \in 1..Len(Sections(html_content)) :
       Sections(html_content)[k].px_name \in WorkNames(works_with_template)
  /\ \A k \in 1..Len(works_with_template) :
       PX_INDEX[works_with_template[k][1]] < i

\* A finished run with sections before and after plot-kinds that were
\* skipped, one of them because a figure call raised.
Wit_C12 ==
  /\ pc = "done"
  /\ \E name \in PX_NAMES : status[name] = "figure failed"
  /\ status["scatter_geo"] = "no data"
  /\ status["choropleth"] = "excluded"
  /\ \E a, b \in 1..Len(Sections(file.content)) :
       /\ PX_INDEX[Sections(file.content)[a].px_name] < PX_INDEX["scatter_geo"]
       /\ PX_INDEX[Sections(file.content)[b].px_name] > PX_INDEX["choropleth"]

====
